---- MODULE Spec2Model ----
(***************************************************************************)
(* SearchableExtractor::run_extraction                                     *)
(* (milli/src/update/new/extract/searchable/mod.rs).                       *)
(*                                                                         *)
(* The run is a state machine: the read-only setup queries, the parallel   *)
(* phase (rayon jobs on worker threads, each job starting with the init    *)
(* closure and then running the op closure on the items it receives), the  *)
(* join of the parallel phase, and the merge stage (every cache of the     *)
(* collection finalized, the readers handed to the merger builder).        *)
(*                                                                         *)
(* rayon's try_for_each_init calls the init closure when a job's folder is *)
(* created, before the job receives any item, and also for a job created   *)
(* after the stop flag is set; a job of an unindexed or filtered source,   *)
(* or the only job of an empty source, may receive no item at all.  Which  *)
(* thread runs which job, how the items are split over the jobs and how    *)
(* the threads interleave is the scheduler's choice: \E in the actions.    *)
(***************************************************************************)
EXTENDS Naturals, Sequences, FiniteSets, Bags, TLC

\* ------------------------------------------------------------- bounds
MaxItems == 2        \* longest document-change source
NumWorkers == 2      \* worker threads of the pool
MaxKey == 2          \* posting keys are 1..MaxKey, ordered as the integers
CacheBudget == 1     \* in-memory entries of one cache (1_000_000 in the code)
MaxDeltas == 3       \* combine rule alone: most deltas of one key combined
MaxInserts == 3      \* cache alone: most insert calls made on the cache

Workers == 1..NumWorkers
Keys == 1..MaxKey
NoWorker == 0
NoItem == 0
NoCache == 0

\* ------------------------------------------------------ document changes
\* One item of the source: an error of the upstream, or a DocumentChange.
\* The document id of the change in slot i is i: the source holds at most
\* one change per document.  old/new are the posting keys of the document's
\* old and new version.
ErrItem == [tag |-> "err", old |-> {}, new |-> {}]

Insertion(new) == [tag |-> "ins", old |-> {}, new |-> new]

Deletion(old) == [tag |-> "del", old |-> old, new |-> {}]

Update(old, new) == [tag |-> "upd", old |-> old, new |-> new]

\* The changes the source draws from: a document of every key inserted, a
\* document of the first key deleted, and an update that drops every key but
\* the last, which the old and the new version share.
ItemSet ==
    {ErrItem, Insertion(Keys), Deletion({1}), Update(Keys, {MaxKey})}

Sources == UNION {[1..n -> ItemSet] : n \in 0..MaxItems}

\* ----------------------------------------------------------------- deltas
\* A delta: the removed and the added document ids of one key.  prov is the
\* bag of the insert calls the delta was built from (<<doc, side>>).
EmptyDelta == [del |-> {}, add |-> {}, prov |-> EmptyBag]

DelDelta(doc) ==
    [del |-> {doc}, add |-> {}, prov |-> SetToBag({<<doc, "del">>})]

AddDelta(doc) ==
    [del |-> {}, add |-> {doc}, prov |-> SetToBag({<<doc, "add">>})]

\* Mutant: the later value replaces the removes of the earlier one.
MergeDelAddKeepLast(a, b) ==
    [del |-> b.del, add |-> a.add \cup b.add, prov |-> a.prov (+) b.prov]

\* MergeDeladdCboRoaringBitmaps on two values of one key.
MergeDelAdd(a, b) ==
    [del |-> a.del \cup b.del, add |-> a.add \cup b.add,
     prov |-> a.prov (+) b.prov]

\* The resolved bitmap of a delta: union of adds minus removes.
Resolved(d) == d.add \ d.del

\* --------------------------------------------------------------- the cache
\* CboCachedSorter: an in-memory map key -> delta of at most CacheBudget
\* entries, and the runs already spilled to the sorter.
RECURSIVE SortedKeys(_)
SortedKeys(S) ==
    IF S = {} THEN <<>>
    ELSE LET m == CHOOSE k \in S : \A j \in S : k <= j
         IN <<m>> \o SortedKeys(S \ {m})

\* The in-memory map written out as one run, sorted by key.
FlushRun(mem) ==
    LET ks == SortedKeys(DOMAIN mem)
    IN [i \in 1..Len(ks) |-> [key |-> ks[i], val |-> mem[ks[i]]]]

\* Mutant: a cache that starts with an entry left from elsewhere.
NewCacheUsed(w) ==
    [owner |-> w, mem |-> [x \in {1} |-> AddDelta(1)], runs |-> <<>>]

NewCache(w) == [owner |-> w, mem |-> <<>>, runs |-> <<>>]

\* The cache not yet turned into its sorter.
NoSorter == [open |-> FALSE, runs |-> <<>>]

\* insert_add / insert_remove of one (key, delta) into a cache.
Insert(c, k, d) ==
    IF k \in DOMAIN c.mem
    THEN [c EXCEPT !.mem = [c.mem EXCEPT ![k] = MergeDelAdd(@, d)]]
    ELSE IF Cardinality(DOMAIN c.mem) >= CacheBudget
    THEN [c EXCEPT !.runs = Append(@, FlushRun(c.mem)),
                   !.mem = [x \in {k} |-> d]]
    ELSE [c EXCEPT !.mem = [x \in DOMAIN c.mem \cup {k} |->
                                IF x = k THEN d ELSE c.mem[x]]]

\* Mutant: the sorter is handed over without the in-memory remainder.
IntoSorterNoFlush(c) == c.runs

\* into_sorter: the in-memory remainder is flushed; the sorter's runs.
IntoSorter(c) ==
    IF DOMAIN c.mem = {} THEN c.runs ELSE Append(c.runs, FlushRun(c.mem))

\* ------------------------------------------------ extract_document_change
\* The writes of one change of document doc: a remove for every key of the
\* old side, then an add for every key of the new side.
Writes(item, doc) ==
    LET o == SortedKeys(item.old)
        n == SortedKeys(item.new)
    IN [i \in 1..Len(o) |-> [key |-> o[i], val |-> DelDelta(doc)]]
       \o [i \in 1..Len(n) |-> [key |-> n[i], val |-> AddDelta(doc)]]

RECURSIVE ApplyWrites(_, _)
ApplyWrites(c, ws) ==
    IF ws = <<>> THEN c
    ELSE ApplyWrites(Insert(c, Head(ws).key, Head(ws).val), Tail(ws))

extract_document_change(c, item, doc) == ApplyWrites(c, Writes(item, doc))

\* ------------------------------------------------------------ k-way merge
\* grenad's Merger over the runs of the builder: the smallest key at the head
\* of any run is emitted once, with the values of every run holding it merged
\* by MergeDelAdd, in the order of the runs.
RECURSIVE MergeAll(_)
MergeAll(vals) ==
    IF Len(vals) = 1 THEN vals[1]
    ELSE MergeDelAdd(vals[1], MergeAll(Tail(vals)))

RECURSIVE HeadsAt(_, _)
HeadsAt(runs, k) ==
    IF runs = <<>> THEN <<>>
    ELSE (IF Head(runs) # <<>> /\ Head(runs)[1].key = k
          THEN <<Head(runs)[1].val>> ELSE <<>>) \o HeadsAt(Tail(runs), k)

RECURSIVE KWayMerge(_)
KWayMerge(runs) ==
    LET live == {j \in 1..Len(runs) : runs[j] # <<>>}
    IN IF live = {} THEN <<>>
       ELSE LET k == CHOOSE x \in {runs[j][1].key : j \in live} :
                        \A j \in live : x <= runs[j][1].key
                rest == [j \in 1..Len(runs) |->
                            IF j \in live /\ runs[j][1].key = k
                            THEN Tail(runs[j]) ELSE runs[j]]
                entry == [key |-> k, val |-> MergeAll(HeadsAt(runs, k))]
            IN <<entry>> \o KWayMerge(rest)

RECURSIVE Flatten(_)
Flatten(ss) == IF ss = <<>> THEN <<>> ELSE Head(ss) \o Flatten(Tail(ss))

RECURSIVE BuildMergerPerReader(_)
\* Mutant: a merger built per reader, the outputs chained.
BuildMergerPerReader(rs) ==
    IF rs = <<>> THEN <<>>
    ELSE KWayMerge(Head(rs)) \o BuildMergerPerReader(Tail(rs))

\* Mutant: a new builder for every reader, so that only the last one counts.
BuildMergerLastReader(rs) ==
    IF rs = <<>> THEN <<>> ELSE KWayMerge(rs[Len(rs)])

\* builder.extend(reader) for every reader, then builder.build().
BuildMerger(rs) == KWayMerge(Flatten(rs))

\* ------------------------------------------------------------------ state
VARIABLES
    pc,                \* where run_extraction is: setup, parallel, merge, done
    document_changes,  \* the source: slot -> item
    remaining,         \* slots not yet taken by any job
    full,              \* rayon's stop flag, set by the first item ending in Err
    errors,            \* the errors items ended with, in the order observed
    worker,            \* per thread: its current job
    local,             \* ThreadLocal: per thread, its cache's place in caches
    caches,            \* AppendOnlyLinkedList of the caches
    started,           \* at least one job was started
    todo,              \* merge stage: caches taken from the collection, not yet mapped
    readers,           \* merge stage: the collected results of the map
    result,            \* what run_extraction returned
    calls,             \* history: slot -> the extract_document_change calls it got
    init_failed,       \* history: some initialisation failed
    drains,            \* history: times the collection was drained
    pool,              \* combine rule alone: the deltas of one key, as given
    deltas,            \* combine rule alone: the deltas, as combined so far
    cache,             \* cache alone: one CboCachedSorter
    inserted,          \* cache alone: the insert calls made on it, in order
    sorter             \* cache alone: what into_sorter gave, once called

\* The variables of the run, and those of the components taken alone.
runVars == <<pc, document_changes, remaining, full, errors, worker, local,
             caches, started, todo, readers, result, calls, init_failed, drains>>

aloneVars == <<pool, deltas, cache, inserted, sorter>>

vars == <<runVars, aloneVars>>

Idle == [st |-> "idle", init |-> "none", cache |-> NoCache, item |-> NoItem]

NoResult == [tag |-> "none", err |-> <<>>, merger |-> <<>>]

Err(e) == [tag |-> "err", err |-> e, merger |-> <<>>]

Ok(m) == [tag |-> "ok", err |-> <<>>, merger |-> m]

Error(kind, w, i) == [kind |-> kind, by |-> w, at |-> i]

Init ==
    /\ pc = "setup"
    /\ document_changes \in Sources
    /\ remaining = DOMAIN document_changes
    /\ full = FALSE
    /\ errors = <<>>
    /\ worker = [w \in Workers |-> Idle]
    /\ local = [w \in Workers |-> NoCache]
    /\ caches = <<>>
    /\ started = FALSE
    /\ todo = {}
    /\ readers = <<>>
    /\ result = NoResult
    /\ calls = [i \in DOMAIN document_changes |-> <<>>]
    /\ init_failed = FALSE
    /\ drains = 0
    /\ pool = <<>>
    /\ deltas = <<>>
    /\ cache = NewCache(NoWorker)
    /\ inserted = <<>>
    /\ sorter = NoSorter

\* ------------------------------------------------------------------ setup
\* The read-only queries made before the parallel phase, each ended by `?`.
SetupQueries ==
    <<"read_txn", "stop_words", "allowed_separators", "dictionary",
      "attributes_to_extract", "attributes_to_skip",
      "localized_attributes_rules">>

\* Mutant: a query made lazily, after the parallel phase has begun.
SetupFailsLazily ==
    /\ pc \in {"setup", "parallel"}
    /\ \E q \in 1..Len(SetupQueries) :
          result' = Err(Error(SetupQueries[q], NoWorker, NoItem))
    /\ pc' = "done"
    /\ UNCHANGED <<document_changes, remaining, full, errors, worker, local,
                   caches, started, todo, readers, calls, init_failed, drains>>
    /\ UNCHANGED aloneVars

SetupFails ==
    /\ pc = "setup"
    /\ \E q \in 1..Len(SetupQueries) :
          result' = Err(Error(SetupQueries[q], NoWorker, NoItem))
    /\ pc' = "done"
    /\ UNCHANGED <<document_changes, remaining, full, errors, worker, local,
                   caches, started, todo, readers, calls, init_failed, drains>>
    /\ UNCHANGED aloneVars

\* Every query succeeded: AppendOnlyLinkedList::new(), ThreadLocal::new().
Setup ==
    /\ pc = "setup"
    /\ pc' = "parallel"
    /\ caches' = <<>>
    /\ local' = [w \in Workers |-> NoCache]
    /\ UNCHANGED <<document_changes, remaining, full, errors, worker, started,
                   todo, readers, result, calls, init_failed, drains>>
    /\ UNCHANGED aloneVars

\* --------------------------------------------------------- parallel phase
\* Mutant: one slot shared by every thread instead of one per thread.
ThreadLocalGetShared(w) ==
    IF \E v \in Workers : local[v] # NoCache
    THEN local[CHOOSE v \in Workers : local[v] # NoCache]
    ELSE NoCache

\* Mutant: the init closure without the ThreadLocal: nothing is ever found.
ThreadLocalGetMiss(w) == NoCache

\* ThreadLocal::get: the value stored for the calling thread, if any.
ThreadLocalGet(w) == local[w]

\* Thread w is in use: it holds a bundle or runs a job.
Started(w) == local[w] # NoCache \/ worker[w].st # "idle"

\* Mutant: the pushed cache overwrites the last entry instead of being linked.
PushReplace(cs, c) ==
    IF cs = <<>> THEN <<c>> ELSE [cs EXCEPT ![Len(cs)] = c]

\* caches.push(cache): the collection with the cache appended.
Push(cs, c) == Append(cs, c)

\* Mutant: the cache is pushed before the read transaction is opened.
StartJobPushFirst(w) ==
    /\ pc = "parallel"
    /\ worker[w].st \in {"idle", "job"}
    /\ \A v \in Workers : v < w => Started(v)
    /\ started' = TRUE
    /\ \/ /\ ThreadLocalGet(w) # NoCache
          /\ worker' = [worker EXCEPT ![w] =
                 [st |-> "job", init |-> "ok", cache |-> ThreadLocalGet(w),
                  item |-> NoItem]]
          /\ UNCHANGED <<local, caches, init_failed>>
       \/ /\ ThreadLocalGet(w) = NoCache
          /\ Len(caches) < NumWorkers
          /\ caches' = Push(caches, NewCache(w))
          /\ worker' = [worker EXCEPT ![w] =
                 [st |-> "job", init |-> "err", cache |-> NoCache,
                  item |-> NoItem]]
          /\ init_failed' = TRUE
          /\ UNCHANGED local
       \/ /\ ThreadLocalGet(w) = NoCache
          /\ caches' = Push(caches, NewCache(w))
          /\ local' = [local EXCEPT ![w] = Len(caches')]
          /\ worker' = [worker EXCEPT ![w] =
                 [st |-> "job", init |-> "ok", cache |-> Len(caches'),
                  item |-> NoItem]]
          /\ UNCHANGED init_failed
    /\ UNCHANGED <<pc, document_changes, remaining, full, errors, todo,
                   readers, result, calls, drains>>
    /\ UNCHANGED aloneVars

\* The init closure, run by thread w when one of its jobs starts:
\* local.get_or_try(...).  A stored bundle is reused; otherwise read_txn is
\* opened first and, if that fails, nothing is pushed and nothing stored.
\* The job the thread ran before, if any, has ended: the end of a job changes
\* nothing.  The threads of the pool are interchangeable: an unused thread
\* is taken only when every thread of a smaller number is in use.
StartJob(w) ==
    /\ pc = "parallel"
    /\ worker[w].st \in {"idle", "job"}
    /\ \A v \in Workers : v < w => Started(v)
    /\ started' = TRUE
    /\ \/ /\ ThreadLocalGet(w) # NoCache
          /\ worker' = [worker EXCEPT ![w] =
                 [st |-> "job", init |-> "ok", cache |-> ThreadLocalGet(w),
                  item |-> NoItem]]
          /\ UNCHANGED <<local, caches, init_failed>>
       \/ /\ ThreadLocalGet(w) = NoCache
          /\ worker' = [worker EXCEPT ![w] =
                 [st |-> "job", init |-> "err", cache |-> NoCache,
                  item |-> NoItem]]
          /\ init_failed' = TRUE
          /\ UNCHANGED <<local, caches>>
       \/ /\ ThreadLocalGet(w) = NoCache
          /\ caches' = Push(caches, NewCache(w))
          /\ local' = [local EXCEPT ![w] = Len(caches')]
          /\ worker' = [worker EXCEPT ![w] =
                 [st |-> "job", init |-> "ok", cache |-> Len(caches'),
                  item |-> NoItem]]
          /\ UNCHANGED init_failed
    /\ UNCHANGED <<pc, document_changes, remaining, full, errors, todo,
                   readers, result, calls, drains>>
    /\ UNCHANGED aloneVars

\* Mutant: handing out slot i also drops the slot after it.
TakenAndNext(rem, i) == rem \ {i, i + 1}

\* What is left of the source once slot i was handed to a job.
Taken(rem, i) == rem \ {i}

\* Mutant: a for_each that never stops.
StoppedNever == FALSE

\* try_for_each_init stops handing out items once an item has ended in Err.
Stopped == full

\* A job of thread w receives the next item: only while the stop flag is unset.
Take(w) ==
    /\ pc = "parallel"
    /\ worker[w].st = "job"
    /\ ~Stopped
    /\ \E i \in remaining :
          /\ worker' = [worker EXCEPT ![w].st = "item", ![w].item = i]
          /\ remaining' = Taken(remaining, i)
    /\ UNCHANGED <<pc, document_changes, full, errors, local, caches, started,
                   todo, readers, result, calls, init_failed, drains>>
    /\ UNCHANGED aloneVars

\* Mutant: the failed item is skipped and the job goes on.
FailsSkipped(w, e) ==
    /\ UNCHANGED <<errors, full>>
    /\ worker' = [worker EXCEPT ![w].st = "job", ![w].item = NoItem]

\* The item ended in Err(e): the job receives no further item and the stop
\* flag is set.
Fails(w, e) ==
    /\ errors' = Append(errors, e)
    /\ full' = TRUE
    /\ worker' = [worker EXCEPT ![w].st = "job", ![w].item = NoItem]

\* The op on the item thread w holds.  With a failed init the item ends in
\* the init's error and the op closure is not run.  Otherwise the closure:
\* `document_change?` returns an error item before extract_document_change is
\* called; the call gets the job's cache, and writes its deltas or fails (the
\* writes of a failed call are left out: no cache of a failed run is read).
Process(w) ==
    LET i == worker[w].item
        c == worker[w].cache
        item == document_changes[i]
    IN
    /\ pc = "parallel"
    /\ worker[w].st = "item"
    /\ \/ /\ worker[w].init = "err"
          /\ Fails(w, Error("init", w, NoItem))
          /\ UNCHANGED <<caches, calls>>
       \/ /\ worker[w].init = "ok"
          /\ item.tag = "err"
          /\ Fails(w, Error("source", NoWorker, i))
          /\ UNCHANGED <<caches, calls>>
       \/ /\ worker[w].init = "ok"
          /\ item.tag # "err"
          /\ calls' = [calls EXCEPT ![i] = Append(@, [by |-> w, cache |-> c])]
          /\ \/ /\ caches' = [caches EXCEPT ![c] =
                                 extract_document_change(@, item, i)]
                /\ worker' = [worker EXCEPT ![w].st = "job", ![w].item = NoItem]
                /\ UNCHANGED <<errors, full>>
             \/ /\ Fails(w, Error("extract", NoWorker, i))
                /\ UNCHANGED caches
    /\ UNCHANGED <<pc, document_changes, remaining, local, started, todo,
                   readers, result, init_failed, drains>>
    /\ UNCHANGED aloneVars

\* The error try_arc_for_each_try_init returns: the reduction keeps the error
\* of the leftmost failed job of the split tree, which need not be the first
\* in time.
Returned(errs) == {errs[j] : j \in 1..Len(errs)}

\* Mutant: the result of the parallel phase is dropped (no `?`).
FailedIgnored == FALSE

\* `)?;`: the parallel phase ended in Err.
Failed == errors # <<>>

\* Mutant: the join waits for the source to be exhausted, stop flag or not.
JoinWaitsForSource ==
    /\ pc = "parallel"
    /\ started
    /\ \A w \in Workers : worker[w].st # "item"
    /\ remaining = {}
    /\ worker' = [w \in Workers |-> Idle]
    /\ IF Failed
       THEN /\ \E e \in Returned(errors) : result' = Err(e)
            /\ pc' = "done"
       ELSE /\ pc' = "merge"
            /\ UNCHANGED result
    /\ UNCHANGED <<document_changes, remaining, full, errors, local, caches,
                   started, todo, readers, calls, init_failed, drains>>
    /\ UNCHANGED aloneVars

\* Every job has ended (no thread holds an item, and the source is exhausted
\* or the stop flag set): `)?;` returns the error, or the merge stage begins.
Join ==
    /\ pc = "parallel"
    /\ started
    /\ \A w \in Workers : worker[w].st # "item"
    /\ remaining = {} \/ full
    /\ worker' = [w \in Workers |-> Idle]
    /\ IF Failed
       THEN /\ \E e \in Returned(errors) : result' = Err(e)
            /\ pc' = "done"
       ELSE /\ pc' = "merge"
            /\ UNCHANGED result
    /\ UNCHANGED <<document_changes, remaining, full, errors, local, caches,
                   started, todo, readers, calls, init_failed, drains>>
    /\ UNCHANGED aloneVars

\* ------------------------------------------------------------ merge stage
\* Mutant: the collection is read while the parallel phase still runs.
MergeStageEarly == pc = "merge" \/ (pc = "parallel" /\ started)

\* The merge block follows the block of the parallel phase.
MergeStage == pc = "merge"

\* caches.into_iter(): the collection is moved into the iterator.
Drain ==
    /\ MergeStage
    /\ pc' = "map"
    /\ todo' = {j \in 1..Len(caches) : TRUE}
    /\ drains' = drains + 1
    /\ UNCHANGED <<document_changes, remaining, full, errors, worker, local,
                   caches, started, readers, result, calls, init_failed>>
    /\ UNCHANGED aloneVars

\* Mutant: the map closure borrows the cache, which may be finalized again.
FinalizeBorrowed(j) ==
    /\ pc = "map"
    /\ Len(readers) <= Len(caches)
    /\ todo' = todo \ {j}
    /\ \/ readers' = Append(readers,
              [ok |-> TRUE, of |-> j, runs |-> IntoSorter(caches[j])])
       \/ readers' = Append(readers, [ok |-> FALSE, of |-> j, runs |-> <<>>])
    /\ UNCHANGED <<pc, document_changes, remaining, full, errors, worker,
                   local, caches, started, result, calls, init_failed, drains>>
    /\ UNCHANGED aloneVars

\* The map closure on one cache, in parallel over the caches: into_sorter,
\* then into_reader_cursors; either may fail.  collect() keeps every result,
\* in the order the scheduler gives.
Finalize(j) ==
    /\ pc = "map"
    /\ j \in todo
    /\ todo' = todo \ {j}
    /\ \/ readers' = Append(readers,
              [ok |-> TRUE, of |-> j, runs |-> IntoSorter(caches[j])])
       \/ readers' = Append(readers, [ok |-> FALSE, of |-> j, runs |-> <<>>])
    /\ UNCHANGED <<pc, document_changes, remaining, full, errors, worker,
                   local, caches, started, result, calls, init_failed, drains>>
    /\ UNCHANGED aloneVars

\* Mutant: the loop skips the first reader of the vector.
ReadersSkipFirst(rs) ==
    IF rs = <<>> THEN <<>> ELSE Tail([j \in 1..Len(rs) |-> rs[j].runs])

\* The readers the loop extends the builder with, in the vector's order.
Readers(rs) == [j \in 1..Len(rs) |-> rs[j].runs]

\* Mutant: a failed reader is skipped and the others are merged.
BuildSkipFailed ==
    /\ pc = "map"
    /\ todo = {}
    /\ pc' = "done"
    /\ LET good == SortedKeys({j \in 1..Len(readers) : readers[j].ok})
       IN result' = Ok(BuildMerger([x \in 1..Len(good) |-> readers[good[x]].runs]))
    /\ UNCHANGED <<document_changes, remaining, full, errors, worker, local,
                   caches, started, todo, readers, calls, init_failed, drains>>
    /\ UNCHANGED aloneVars

\* `for reader in readers { builder.extend(reader?) }`: the first failed
\* reader of the vector ends the run with its error (of into_sorter or of
\* into_reader_cursors); otherwise Ok(builder.build()).
Build ==
    /\ pc = "map"
    /\ todo = {}
    /\ pc' = "done"
    /\ LET bad == {j \in 1..Len(readers) : ~readers[j].ok}
       IN IF bad # {}
          THEN LET first == CHOOSE j \in bad : \A x \in bad : j <= x
               IN \E k \in {"into_sorter", "into_reader_cursors"} :
                     result' = Err(Error(k, NoWorker, readers[first].of))
          ELSE result' = Ok(BuildMerger(Readers(readers)))
    /\ UNCHANGED <<document_changes, remaining, full, errors, worker, local,
                   caches, started, todo, readers, calls, init_failed, drains>>
    /\ UNCHANGED aloneVars

Next ==
    \/ Setup
    \/ SetupFails
    \/ \E w \in Workers : StartJob(w)
    \/ \E w \in Workers : Take(w)
    \/ \E w \in Workers : Process(w)
    \/ Join
    \/ Drain
    \/ \E j \in 1..Len(caches) : Finalize(j)
    \/ Build

Spec == Init /\ [][Next]_vars

\* A fair schedule: the threads of the pool and the calling thread do not
\* all stop while one of them has a step to take.
FairSpec == Spec /\ WF_vars(Next)

\* ------------------------------------------------- the combine rule alone
\* The combine rule of the merge applied to the deltas of one key, in any
\* order and any grouping: two of the deltas are replaced by their
\* combination until one is left.
Docs == 1..MaxItems

\* The deltas drawn from: nothing, and for every document a remove, an add,
\* and a remove with an add.
DeltaOf(j) ==
    IF j = 0 THEN EmptyDelta
    ELSE LET doc == ((j - 1) \div 3) + 1
             side == (j - 1) % 3
         IN CASE side = 0 -> DelDelta(doc)
              [] side = 1 -> AddDelta(doc)
              [] OTHER -> MergeDelAdd(DelDelta(doc), AddDelta(doc))

\* The pools of at most MaxDeltas deltas; the order a pool is given in does
\* not matter, as Combine takes its deltas in every order.
Pools ==
    {[i \in DOMAIN f |-> DeltaOf(f[i])] :
        f \in {g \in UNION {[1..n -> 0..(3 * MaxItems)] : n \in 1..MaxDeltas} :
                  \A i \in DOMAIN g : \A j \in DOMAIN g : i < j => g[i] <= g[j]}}

\* run_extraction is not running.
RunAtRest ==
    /\ pc = "setup"
    /\ document_changes = <<>>
    /\ remaining = {}
    /\ full = FALSE
    /\ errors = <<>>
    /\ worker = [w \in Workers |-> Idle]
    /\ local = [w \in Workers |-> NoCache]
    /\ caches = <<>>
    /\ started = FALSE
    /\ todo = {}
    /\ readers = <<>>
    /\ result = NoResult
    /\ calls = <<>>
    /\ init_failed = FALSE
    /\ drains = 0

InitCombine ==
    /\ RunAtRest
    /\ pool \in Pools
    /\ deltas = pool
    /\ cache = NewCache(NoWorker)
    /\ inserted = <<>>
    /\ sorter = NoSorter

\* The sequence s without its places i and j.
Without(s, i, j) ==
    LET keep == SortedKeys(DOMAIN s \ {i, j})
    IN [x \in 1..Len(keep) |-> s[keep[x]]]

\* The merge function on two of the deltas, in either order.
Combine(i, j) ==
    /\ i \in DOMAIN deltas
    /\ j \in DOMAIN deltas
    /\ i # j
    /\ deltas' = Append(Without(deltas, i, j), MergeDelAdd(deltas[i], deltas[j]))
    /\ UNCHANGED <<pool, cache, inserted, sorter>>
    /\ UNCHANGED runVars

NextCombine == \E i \in 1..MaxDeltas : \E j \in 1..MaxDeltas : Combine(i, j)

SpecCombine == InitCombine /\ [][NextCombine]_vars

\* --------------------------------------------------------- the cache alone
\* One cache given any sequence of at most MaxInserts insert calls, then
\* turned into its sorter.
InitCache ==
    /\ RunAtRest
    /\ pool = <<>>
    /\ deltas = <<>>
    /\ cache = NewCache(NoWorker)
    /\ inserted = <<>>
    /\ sorter = NoSorter

Inserted(k, doc, side) == [key |-> k, doc |-> doc, side |-> side]

insert_add(k, doc) ==
    /\ ~sorter.open
    /\ Len(inserted) < MaxInserts
    /\ cache' = Insert(cache, k, AddDelta(doc))
    /\ inserted' = Append(inserted, Inserted(k, doc, "add"))
    /\ UNCHANGED <<pool, deltas, sorter>>
    /\ UNCHANGED runVars

insert_remove(k, doc) ==
    /\ ~sorter.open
    /\ Len(inserted) < MaxInserts
    /\ cache' = Insert(cache, k, DelDelta(doc))
    /\ inserted' = Append(inserted, Inserted(k, doc, "del"))
    /\ UNCHANGED <<pool, deltas, sorter>>
    /\ UNCHANGED runVars

\* into_sorter consumes the cache.
into_sorter ==
    /\ ~sorter.open
    /\ sorter' = [open |-> TRUE, runs |-> IntoSorter(cache)]
    /\ UNCHANGED <<pool, deltas, cache, inserted>>
    /\ UNCHANGED runVars

NextCache ==
    \/ \E k \in Keys : \E doc \in Docs : insert_add(k, doc)
    \/ \E k \in Keys : \E doc \in Docs : insert_remove(k, doc)
    \/ into_sorter

SpecCache == InitCache /\ [][NextCache]_vars

\* =================================================================== claims
Range(s) == {s[j] : j \in 1..Len(s)}

Success == pc = "done" /\ result.tag = "ok"

Failure == pc = "done" /\ result.tag = "err"

\* The deltas of key k a cache holds: in its spilled runs and in memory.
RECURSIVE EntriesOf(_, _)
EntriesOf(es, k) ==
    IF es = <<>> THEN <<>>
    ELSE (IF Head(es).key = k THEN <<Head(es).val>> ELSE <<>>)
         \o EntriesOf(Tail(es), k)

DeltasIn(c, k) ==
    EntriesOf(Flatten(c.runs), k)
        \o (IF k \in DOMAIN c.mem THEN <<c.mem[k]>> ELSE <<>>)

RECURSIVE DeltasOf(_, _)
DeltasOf(cs, k) ==
    IF cs = <<>> THEN <<>> ELSE DeltasIn(Head(cs), k) \o DeltasOf(Tail(cs), k)

\* How many of the deltas ds were built from the insert call x.
RECURSIVE Copies(_, _)
Copies(x, ds) ==
    IF ds = <<>> THEN 0 ELSE CopiesIn(x, Head(ds).prov) + Copies(x, Tail(ds))

InsertCalls == (1..MaxItems) \X {"del", "add"}

\* The workers that extract_document_change was called on, and their slots.
SlotsOf(w) ==
    {i \in DOMAIN calls : \E j \in 1..Len(calls[i]) : calls[i][j].by = w}

OwnedBy(w) == {j \in 1..Len(caches) : caches[j].owner = w}

\* C1: in a successful run the pairs of the returned Merger are strictly
\* ascending by key, so no key appears twice.
C1_MergedStrictlyAscending ==
    Success =>
        \A j \in 1..Len(result.merger) : \A x \in 1..Len(result.merger) :
            j < x => result.merger[j].key < result.merger[x].key

\* C1 witness: a merged output of two keys, from two caches, one of which
\* spilled a run, both caches holding the same key.
C1_Witness ==
    /\ Success
    /\ Len(result.merger) >= 2
    /\ Len(caches) >= 2
    /\ \E j \in 1..Len(readers) : Len(readers[j].runs) >= 2
    /\ \E k \in Keys : DeltasIn(caches[1], k) # <<>> /\ DeltasIn(caches[2], k) # <<>>

\* C2: in a successful run the value emitted for a key is the combination of
\* every delta written for the key in every cache (spilled or in memory):
\* its removes and adds are the unions, every insert call is in it as often
\* as the caches hold it, and exactly the keys the caches hold are emitted.
C2_EveryDeltaCombinedOnce ==
    Success =>
        /\ {result.merger[j].key : j \in 1..Len(result.merger)}
              = {k \in Keys : DeltasOf(caches, k) # <<>>}
        /\ \A j \in 1..Len(result.merger) :
              LET e == result.merger[j]
                  ds == DeltasOf(caches, e.key)
              IN /\ e.val.del = UNION {d.del : d \in Range(ds)}
                 /\ e.val.add = UNION {d.add : d \in Range(ds)}
                 /\ \A x \in InsertCalls : CopiesIn(x, e.val.prov) = Copies(x, ds)
                 /\ \A x \in InsertCalls : CopiesIn(x, e.val.prov) <= 1

\* C2 witness: a key whose value combines deltas of two caches, one of them
\* from a spilled run.
C2_Witness ==
    /\ Success
    /\ Len(caches) >= 2
    /\ \E k \in Keys :
          /\ EntriesOf(Flatten(caches[1].runs), k) # <<>>
          /\ DeltasIn(caches[2], k) # <<>>
          /\ \E j \in 1..Len(result.merger) :
                result.merger[j].key = k
                /\ BagCardinality(result.merger[j].val.prov) >= 2

\* The resolved document ids the merged output holds for key k.
ResolvedFor(k) ==
    UNION {Resolved(result.merger[j].val) :
              j \in {x \in 1..Len(result.merger) : result.merger[x].key = k}}

\* The documents whose latest state contains key k.
LatestState(k) ==
    {i \in DOMAIN document_changes : k \in document_changes[i].new}

\* C3: in a successful run the resolved set of every key is the set of the
\* documents whose latest state contains the key, whatever the number of
\* workers and the assignment of the changes to them.
C3_MergedEqualsLatestState ==
    Success => \A k \in Keys : ResolvedFor(k) = LatestState(k)

\* C4: in a successful run every change of the source was passed to
\* extract_document_change exactly once, by one worker, and its writes are in
\* that worker's cache and in no other.
C4_EachChangeExtractedOnce ==
    Success =>
        \A i \in DOMAIN document_changes :
            /\ Len(calls[i]) = 1
            /\ caches[calls[i][1].cache].owner = calls[i][1].by
            /\ \A j \in 1..Len(caches) : \A k \in Keys :
                  /\ Copies(<<i, "del">>, DeltasIn(caches[j], k))
                        = IF j = calls[i][1].cache /\ k \in document_changes[i].old
                          THEN 1 ELSE 0
                  /\ Copies(<<i, "add">>, DeltasIn(caches[j], k))
                        = IF j = calls[i][1].cache /\ k \in document_changes[i].new
                          THEN 1 ELSE 0

\* C4 witness: a successful run of a full source whose changes went to
\* different workers.
C4_Witness ==
    /\ Success
    /\ Len(document_changes) = MaxItems
    /\ \E i \in DOMAIN calls : \E x \in DOMAIN calls :
          calls[i] # <<>> /\ calls[x] # <<>> /\ calls[i][1].by # calls[x][1].by

\* C5: in every state, every extract_document_change call made so far got a
\* cache created by the thread that made the call, and so does every job.
C5_OnlyOwnCache ==
    /\ \A i \in DOMAIN calls : \A j \in 1..Len(calls[i]) :
          caches[calls[i][j].cache].owner = calls[i][j].by
    /\ \A w \in Workers :
          worker[w].init = "ok" => caches[worker[w].cache].owner = w

\* C5 witness: during the parallel phase two threads have each made a call.
C5_Witness ==
    /\ pc = "parallel"
    /\ \E i \in DOMAIN calls : \E x \in DOMAIN calls :
          calls[i] # <<>> /\ calls[x] # <<>> /\ calls[i][1].by # calls[x][1].by

\* The merge stage was not entered: nothing drained, nothing finalized, no
\* Merger returned.
NotMerged ==
    /\ pc \in {"parallel", "done"}
    /\ pc = "done" => result.tag = "err"
    /\ drains = 0
    /\ todo = {}
    /\ readers = <<>>

\* C6 as claimed: once any worker has observed an error (a failed
\* initialisation included), the run returns Err and never merges.
C6_AnyObservedErrorFailsRun == (init_failed \/ errors # <<>>) => NotMerged

\* C6: once an item has ended in error on any worker (an error item, an item
\* of a job whose initialisation failed, an Err of extract_document_change),
\* the run returns Err and the merge stage is never entered.
C6_ItemErrorFailsRun == errors # <<>> => NotMerged

\* C6 witness: the run returned Err for a failed initialisation while a cache
\* of another worker already holds entries.
C6_Witness ==
    /\ Failure
    /\ \E e \in Range(errors) : e.kind = "init"
    /\ \E j \in 1..Len(caches) : \E k \in Keys : DeltasIn(caches[j], k) # <<>>

\* C7: the collection is drained once, after the parallel phase has ended
\* (no job runs), and no cache is appended or written after the drain.
C7_DrainedOnceAfterParallelPhase ==
    /\ [](/\ drains <= 1
          /\ drains = 1 <=> pc = "map" \/ Success \/ (pc = "done" /\ readers # <<>>)
          /\ drains = 1 => \A w \in Workers : worker[w] = Idle)
    /\ [][drains' # drains => \A w \in Workers : worker[w] = Idle]_vars
    /\ [][drains >= 1 => caches' = caches]_vars

\* C7 witness: a successful run whose two caches hold entries.
C7_Witness ==
    /\ Success
    /\ drains = 1
    /\ Len(caches) >= 2
    /\ \A j \in 1..Len(caches) : \E k \in Keys : DeltasIn(caches[j], k) # <<>>

\* C8: a thread completes its initialisation at most once: it owns at most
\* one cache of the collection, the one its ThreadLocal holds, and each of
\* its calls and jobs used that cache.
C8_InitOncePerThread ==
    \A w \in Workers :
        /\ Cardinality(OwnedBy(w)) <= 1
        /\ OwnedBy(w) = IF local[w] = NoCache THEN {} ELSE {local[w]}
        /\ worker[w].init = "ok" => worker[w].cache = local[w]
        /\ \A i \in SlotsOf(w) : \A j \in 1..Len(calls[i]) :
              calls[i][j].by = w => calls[i][j].cache = local[w]

\* C8 witness: one thread has processed two items.
C8_Witness == \E w \in Workers : Cardinality(SlotsOf(w)) >= 2

\* C9 as claimed: when the source is exhausted with no error, a thread has a
\* cache in the collection exactly if it processed at least one item.
C9_CacheIffProcessed ==
    pc = "merge" =>
        \A w \in Workers :
            Cardinality(OwnedBy(w)) = IF SlotsOf(w) # {} THEN 1 ELSE 0

\* C9: when the source is exhausted with no error, the collection holds at
\* most one cache per thread and one for every thread that processed an
\* item; no entry is ever removed or replaced.
C9_OneCachePerInitialisedThread ==
    /\ [](pc = "merge" =>
            \A w \in Workers :
                /\ Cardinality(OwnedBy(w)) <= 1
                /\ SlotsOf(w) # {} => Cardinality(OwnedBy(w)) = 1)
    /\ [][/\ Len(caches') >= Len(caches)
          /\ \A j \in 1..Len(caches) : caches'[j].owner = caches[j].owner]_vars

\* C9 witness: the source is exhausted with no error and two threads, each
\* having processed an item, have a cache each.
C9_Witness ==
    /\ pc = "merge"
    /\ Len(caches) >= 2
    /\ \A w \in Workers : OwnedBy(w) # {} => SlotsOf(w) # {}

\* C10 as claimed: the error the run returns is the first one observed.
C10_FirstErrorReturned ==
    (Failure /\ errors # <<>>) => result.err = errors[1]

\* C10: the error the run returns is one of those the items ended with; once
\* an item has ended in error no further item is handed out; the run returns
\* once.
C10_OneObservedErrorReturned ==
    /\ []((Failure /\ errors # <<>>) => result.err \in Range(errors))
    /\ [][errors # <<>> => remaining' = remaining]_vars
    /\ [][pc = "done" => result' = result]_vars

\* C10 witness: the run has returned Err after two items ended in error, the
\* second one in flight when the first was observed.
C10_Witness == Failure /\ Len(errors) >= 2

\* The field-id map clone of thread w: the clone is handed, as &mut, to
\* extract_document_change only, so its content is what the calls made by
\* the thread have registered (the fields of the documents of those calls).
fields_ids_map(w) == SlotsOf(w)

\* The slots of the source holding an error that a job has received.
ErrorItemsTaken ==
    {i \in DOMAIN document_changes :
        document_changes[i].tag = "err" /\ i \notin remaining}

\* C11 as claimed: the error of every error item taken from the source is
\* the error the run returns.
C11_ErrorItemIsTerminalError ==
    Failure => \A i \in ErrorItemsTaken :
                  result.err = Error("source", NoWorker, i)

\* C11: extract_document_change is never called for an error item; the step
\* in which the item's error is observed leaves every cache and every
\* field-id map clone unchanged; and a run in which an error item was taken
\* returns Err, with an error that an item of the run ended with.
C11_ErrorItemNotExtracted ==
    /\ [](\A i \in DOMAIN document_changes :
             document_changes[i].tag = "err" => calls[i] = <<>>)
    /\ [][(Len(errors') > Len(errors)
            /\ errors'[Len(errors')].kind = "source")
          => /\ caches' = caches
             /\ calls' = calls
             /\ \A w \in Workers : fields_ids_map(w)' = fields_ids_map(w)]_vars
    /\ []((pc = "done" /\ ErrorItemsTaken # {})
            => Failure /\ result.err \in Range(errors))

\* C11 witness: the run returned the error of an error item, received by
\* the one thread in use after that thread had written entries to its cache.
C11_Witness ==
    /\ Failure
    /\ Len(errors) = 1
    /\ result.err.kind = "source"
    /\ Len(caches) = 1
    /\ \E k \in Keys : DeltasIn(caches[1], k) # <<>>
    /\ fields_ids_map(caches[1].owner) # {}

\* The document ids removed, and added, by any delta of the sequence ds.
Removed(ds) == UNION {ds[i].del : i \in DOMAIN ds}

Added(ds) == UNION {ds[i].add : i \in DOMAIN ds}

\* C12: whatever the order and the grouping in which the deltas of one key
\* are combined, the removes and the adds combined so far are those of the
\* deltas given, and the final membership is the adds minus the removes: a
\* document removed by any delta (the one that adds it, or another) is not a
\* member.
C12_CombineOrderIndependent ==
    /\ Removed(deltas) = Removed(pool)
    /\ Added(deltas) = Added(pool)
    /\ Len(deltas) = 1 =>
          /\ Resolved(deltas[1]) = Added(pool) \ Removed(pool)
          /\ \A doc \in Removed(pool) : doc \notin Resolved(deltas[1])
          /\ \A x \in Docs \X {"del", "add"} :
                CopiesIn(x, deltas[1].prov) = Copies(x, pool)

\* C12 witness: MaxDeltas deltas combined to one, a document added by one
\* delta and removed by another, and a document added by two deltas.
C12_Witness ==
    /\ Len(pool) = MaxDeltas
    /\ Len(deltas) = 1
    /\ \E i \in DOMAIN pool : \E j \in DOMAIN pool :
          i # j /\ pool[i].add \cap pool[j].del # {} /\ pool[i].del = {}
    /\ \E i \in DOMAIN pool : \E j \in DOMAIN pool :
          i # j /\ pool[i].add \cap pool[j].add # {}

\* The document ids cache c alone resolves for key k.
CacheResolved(c, k) ==
    IF DeltasIn(c, k) = <<>> THEN {} ELSE Resolved(MergeAll(DeltasIn(c, k)))

\* C13: in a successful run the merged output is the one obtained with the
\* caches finalized and added to the builder in the order of the collection,
\* whatever the order the map gave the readers in; and the set resolved for
\* a key is the union of the sets each cache resolves for it.
C13_FinalizeOrderIrrelevant ==
    Success =>
        /\ result.merger
              = BuildMerger([j \in 1..Len(caches) |-> IntoSorter(caches[j])])
        /\ \A k \in Keys :
              ResolvedFor(k)
                 = UNION {CacheResolved(caches[j], k) : j \in 1..Len(caches)}

\* C13 witness: two workers' caches hold the same key on different
\* documents, the cache pushed last was finalized first, and the key
\* resolves to both documents.
C13_Witness ==
    /\ Success
    /\ Len(caches) = 2
    /\ readers[1].of = 2
    /\ \E k \in Keys :
          /\ CacheResolved(caches[1], k) # {}
          /\ CacheResolved(caches[2], k) # {}
          /\ CacheResolved(caches[1], k) \cap CacheResolved(caches[2], k) = {}
          /\ Cardinality(ResolvedFor(k)) = 2

\* The caches whose finalization (into_sorter or into_reader_cursors) failed.
FailedReaders == {j \in 1..Len(readers) : ~readers[j].ok}

\* C14: a run in which the finalization of some cache failed returns Err, of
\* into_sorter or into_reader_cursors, and no Merger, whatever the other
\* caches gave; and no cache is finalized a second time.
C14_FinalizeErrorFailsRun ==
    /\ (pc = "done" /\ FailedReaders # {}) =>
          /\ Failure
          /\ result.merger = <<>>
          /\ result.err.kind \in {"into_sorter", "into_reader_cursors"}
          /\ \E j \in FailedReaders : result.err.at = readers[j].of
    /\ Len(readers) <= Len(caches)
    /\ \A j \in 1..Len(readers) : \A x \in 1..Len(readers) :
          readers[j].of = readers[x].of => j = x

\* C14 witness: the run returned Err for one cache while another cache,
\* holding entries, was finalized successfully.
C14_Witness ==
    /\ Failure
    /\ \E j \in FailedReaders : result.err.at = readers[j].of
    /\ \E j \in 1..Len(readers) : readers[j].ok /\ readers[j].runs # <<>>

\* How many of the insert calls made on the cache were (k, doc, side).
TimesInserted(k, doc, side) ==
    Cardinality({i \in DOMAIN inserted : inserted[i] = Inserted(k, doc, side)})

Finalized == {readers[j].of : j \in 1..Len(readers)}

\* C16: a cache is created once (its entry of the collection is never
\* replaced, and a thread owns at most one), it is written only by a job of
\* its owner during the parallel phase, it is finalized at most once, and
\* once finalized it is never written again.
C16_CacheLifecycle ==
    /\ [](/\ \A w \in Workers : Cardinality(OwnedBy(w)) <= 1
          /\ Finalized \subseteq 1..Len(caches)
          /\ \A j \in 1..Len(readers) : \A x \in 1..Len(readers) :
                readers[j].of = readers[x].of => j = x)
    /\ [][/\ Len(caches') >= Len(caches)
          /\ \A j \in 1..Len(caches) :
                /\ caches'[j].owner = caches[j].owner
                /\ j \in Finalized => caches'[j] = caches[j]
                /\ caches'[j] # caches[j] =>
                      /\ pc = "parallel"
                      /\ Finalized = {}
                      /\ worker[caches[j].owner].st = "item"
                      /\ worker[caches[j].owner].cache = j]_vars

\* C16 witness: a cache written by two calls of its owner was finalized, in
\* a successful run.
C16_Witness ==
    /\ Success
    /\ \E w \in Workers :
          /\ Cardinality(SlotsOf(w)) >= 2
          /\ OwnedBy(w) \subseteq Finalized
          /\ \E j \in OwnedBy(w) : \E k \in Keys : DeltasIn(caches[j], k) # <<>>

\* The run returned the error of one of the setup queries.
SetupFailed == Failure /\ result.err.kind \in Range(SetupQueries)

\* C17: a run that returned the error of a setup query has taken no item
\* from the source, created no cache, initialised no worker and called
\* extract_document_change for no item; each of the queries can fail so.
C17_SetupErrorBeforeAnyWork ==
    SetupFailed =>
        /\ remaining = DOMAIN document_changes
        /\ caches = <<>>
        /\ ~started
        /\ ~init_failed
        /\ \A w \in Workers : worker[w] = Idle /\ local[w] = NoCache
        /\ \A i \in DOMAIN calls : calls[i] = <<>>
        /\ errors = <<>>
        /\ drains = 0
        /\ readers = <<>>
        /\ result.merger = <<>>

\* C17 witness: the last of the setup queries failed, with a full source.
C17_Witness ==
    /\ SetupFailed
    /\ result.err.kind = "localized_attributes_rules"
    /\ Len(document_changes) = MaxItems

\* C18 as claimed: a run in which the read transaction of an initialisation
\* could not be opened returns Err.
C18_InitErrorFailsRun == (pc = "done" /\ init_failed) => Failure

\* C18: the initialisation attempt in which read_txn fails appends no cache
\* and stores no bundle for the thread; an item received by the job of that
\* attempt ends in the initialisation's error without being passed to
\* extract_document_change; and a run in which an item ended so returns Err.
C18_FailedInitLeavesNothing ==
    /\ [](\A w \in Workers :
             worker[w].init = "err" => local[w] = NoCache /\ OwnedBy(w) = {})
    /\ [][\A w \in Workers :
             (worker[w].init # "err" /\ worker'[w].init = "err") =>
                 /\ caches' = caches
                 /\ local' = local
                 /\ calls' = calls]_vars
    /\ [][\A w \in Workers :
             (worker[w].init = "err" /\ worker[w].st = "item"
                /\ worker'[w].st # "item") =>
                 /\ calls' = calls
                 /\ caches' = caches
                 /\ errors' = Append(errors, Error("init", w, NoItem))]_vars
    /\ []((pc = "done" /\ \E e \in Range(errors) : e.kind = "init")
            => Failure /\ result.merger = <<>>)

\* C18 witness: the run returned the error of a failed initialisation; the
\* one item of the source went to the job of that attempt and was not
\* extracted, and the thread has neither a cache nor a bundle.
C18_Witness ==
    /\ Failure
    /\ result.err.kind = "init"
    /\ Len(document_changes) = 1
    /\ remaining = {}
    /\ calls[1] = <<>>
    /\ local[result.err.by] = NoCache
    /\ OwnedBy(result.err.by) = {}

\* C19 as claimed: with a source that yields no item (and the setup queries
\* answered) no worker is initialised, the collection stays empty, and the
\* run returns Ok with a Merger of no pair.
C19_EmptySourceInitialisesNothing ==
    document_changes = <<>> =>
        /\ caches = <<>>
        /\ \A w \in Workers : local[w] = NoCache
        /\ (pc = "done" /\ ~SetupFailed) => Success /\ result.merger = <<>>

\* C19: with a source that yields no item, extract_document_change is never
\* called, no item ends in error and every cache of the collection (a job
\* that receives nothing has still run the init closure) stays empty, at
\* most one per thread; the run returns Ok with a Merger of no pair, unless
\* a setup query or the finalization of one of these empty caches fails.
C19_EmptySourceEmptyMerger ==
    (document_changes = <<>> /\ pc \in {"parallel", "merge", "map", "done"}) =>
        /\ errors = <<>>
        /\ Len(caches) <= NumWorkers
        /\ \A j \in 1..Len(caches) :
              caches[j].mem = <<>> /\ caches[j].runs = <<>>
        /\ \A w \in Workers : Cardinality(OwnedBy(w)) <= 1
        /\ Success => result.merger = <<>>
        /\ Failure => \/ SetupFailed
                      \/ /\ FailedReaders # {}
                         /\ result.err.kind \in {"into_sorter", "into_reader_cursors"}
        /\ (pc = "done" /\ ~SetupFailed /\ FailedReaders = {}) => Success

\* C19 witness: the source yielded no item, a thread was initialised and its
\* cache is in the collection, and the run returned Ok with an empty Merger.
C19_Witness ==
    /\ document_changes = <<>>
    /\ Success
    /\ result.merger = <<>>
    /\ Len(caches) >= 1
    /\ \E w \in Workers : local[w] # NoCache

\* C20: under a fair schedule every run returns, with Ok(Merger) or Err,
\* and stays returned: no state short of the return is without a step.
C20_EventuallyReturns ==
    /\ <>(Success \/ Failure)
    /\ [][pc = "done" => pc' = "done"]_vars

\* C20 witness: a run in which every thread of the pool processed an item
\* and had its cache finalized has returned Ok.
C20_Witness ==
    /\ pc = "done"
    /\ result.tag = "ok"
    /\ Len(readers) = NumWorkers
    /\ \A w \in Workers : SlotsOf(w) # {}

====
